---- MODULE Spec2Model ----
(***************************************************************************)
(* Model of lib/template.js (the `bake init <template>` scaffolding        *)
(* command): template discovery, the run pipeline (start hooks, template   *)
(* expansion, install hooks), the per-file copy / skip / merge decision    *)
(* and the package.json merge.                                             *)
(***************************************************************************)
EXTENDS Integers, Sequences, FiniteSets, TLC

VARIABLES
  rootfs,       \* the three template search roots on disk
  templates,    \* this.templates, as loaded by the constructor
  scripts,      \* this.scripts (shared by every run of the instance)
  disk,         \* the files of the working directory
  cache,        \* require() cache entry of <cwd>/package.json
  stage,        \* per run: where the promise chain of run() stands
  asked,        \* per run: the template name run() looked for
  tpl,          \* per run: the template selected by run()
  hooks,        \* per run: what happened to each sub-hook
  execs,        \* per run: the commands handed to this.exec, in order
  ops,          \* per run: the per-file operations of the expansion
  failReports,  \* per run: number of calls of CLI.fail
  alive,        \* FALSE once an uncaught exception has ended the process
  prior,        \* per run: the working directory as the run before it left it,
                \* when that run was a successful run of the same template
  mE, mT,       \* merge check: destination and template manifest
  mPrev,        \* merge check: destination manifest before the last merge
  mFirst,       \* merge check: destination manifest after the first merge
  mCount        \* merge check: number of merges applied

runVars   == <<rootfs, templates, scripts, disk, cache, stage, asked, tpl, hooks,
               execs, ops, failReports, alive, prior>>
mergeVars == <<mE, mT, mPrev, mFirst, mCount>>
vars      == <<rootfs, templates, scripts, disk, cache, stage, asked, tpl, hooks,
               execs, ops, failReports, alive,
               mE, mT, mPrev, mFirst, mCount>>

(***************************************************************************)
(* Bounds of the model.                                                    *)
(***************************************************************************)
MaxVersion == 2   \* dependency versions are "1" .. "MaxVersion"
MaxMerges  == 2   \* successive merges applied in the merge check

(***************************************************************************)
(* JavaScript values.  Every value is a record of the same shape so that   *)
(* values of different JavaScript types can be compared.                   *)
(***************************************************************************)
NoProps   == [k \in {} |-> ""]
Undefined == [t |-> "undefined", s |-> "", o |-> NoProps]
Str(x)    == [t |-> "string", s |-> x, o |-> NoProps]
Obj(f)    == [t |-> "object", s |-> "", o |-> f]
\* File contents that are no JSON text
NoFile    == [t |-> "ENOENT", s |-> "", o |-> NoProps]
Partial   == [t |-> "partial", s |-> "", o |-> NoProps]

\* obj.key
Get(v, k) == IF v.t = "object" /\ k \in DOMAIN v.o THEN v.o[k] ELSE Undefined

\* the truthiness test of `if (x)` and `x || y`
Truthy(v) == v.t = "object" \/ (v.t = "string" /\ v.s # "")

Or(v, w) == IF Truthy(v) THEN v ELSE w

\* Mutant of AssignInto: the earlier source wins on a common key.
AssignIntoKeep(f, src) ==
  IF src.t = "object"
    THEN [k \in DOMAIN f \cup DOMAIN src.o |->
            IF k \in DOMAIN f THEN f[k] ELSE src.o[k]]
    ELSE f

\* One source of Object.assign: its own properties are copied onto the
\* target, later sources overwriting earlier ones; undefined is skipped.
AssignInto(f, src) ==
  IF src.t = "object"
    THEN [k \in DOMAIN f \cup DOMAIN src.o |->
            IF k \in DOMAIN src.o THEN src.o[k] ELSE f[k]]
    ELSE f

RECURSIVE assignFrom(_, _)
assignFrom(f, srcs) ==
  IF srcs = <<>> THEN f
  ELSE assignFrom(AssignInto(f, Head(srcs)), Tail(srcs))

\* Object.assign({}, s1, s2, ...)
assign(srcs) == Obj(assignFrom(NoProps, srcs))

\* JSON.stringify followed by the parse of require(): a property whose
\* value is undefined is not written.  A JSON text is modelled by the
\* value it parses to.
RECURSIVE Stringify(_)
Stringify(v) ==
  IF v.t = "object"
    THEN Obj([k \in {j \in DOMAIN v.o : v.o[j].t # "undefined"} |->
                Stringify(v.o[k])])
    ELSE v


(***************************************************************************)
(* mergeJSON: the merged package.json, before it is serialised.            *)
(***************************************************************************)
\* Mutant of mergedField: the merged dependency map takes the project's
\* devDependencies whatever the field.
mergedFieldDevs(json, data, key) ==
  assign(<<Get(json, key), Get(data, "devDependencies")>>)

\* assign({}, json[key], data[key])
mergedField(json, data, key) ==
  assign(<<Get(json, key), Get(data, key)>>)

\* let opts = { bake: undefined }; if (devs) ...; if (deps) ...
mergeOpts(json, data) ==
  LET devs == Get(json, "devDependencies")
      deps == Get(json, "dependencies")
      o0 == ("bake" :> Undefined)
      o1 == IF Truthy(devs)
              THEN AssignInto(o0, Obj("devDependencies" :> mergedField(json, data, "devDependencies")))
              ELSE o0
  IN  Obj(IF Truthy(deps)
            THEN AssignInto(o1, Obj("dependencies" :> mergedField(json, data, "dependencies")))
            ELSE o1)

\* Mutant of mergeResult: the template manifest is assigned after the
\* destination's.
mergeResultTemplateLast(data, json) == assign(<<data, json, mergeOpts(json, data)>>)

\* let result = assign({}, json, data, opts)
mergeResult(data, json) == assign(<<json, data, mergeOpts(json, data)>>)

\* The text handed to fs.writeFile: JSON.stringify(result, null, 2)
mergeJSONText(data, json) == Stringify(mergeResult(data, json))

(***************************************************************************)
(* The file system.  A node is a directory, a file (its content) or        *)
(* nothing (NoFile).                                                       *)
(***************************************************************************)
Dir(entries) == [t |-> "dir", s |-> "", o |-> entries]

exists(node)    == node.t # "ENOENT"
directory(node) == node.t = "dir"
file(node)      == node.t \notin {"dir", "ENOENT"}

\* path.join(dir, name)
Entry(node, name) == IF name \in DOMAIN node.o THEN node.o[name] ELSE NoFile

\* Every entry name of the model, in the order fs.readdirSync lists them
EntryNames == <<"Makefile", "README", "default", "lib", "node", "package.json">>

RECURSIVE SelectNames(_, _)
SelectNames(names, keep) ==
  IF names = <<>> THEN <<>>
  ELSE IF Head(names) \in keep
         THEN <<Head(names)>> \o SelectNames(Tail(names), keep)
         ELSE SelectNames(Tail(names), keep)

readdirSync(node) == SelectNames(EntryNames, DOMAIN node.o)

RECURSIVE Flatten(_)
Flatten(seqs) ==
  IF seqs = <<>> THEN <<>> ELSE Head(seqs) \o Flatten(Tail(seqs))

Range(sq) == {sq[i] : i \in DOMAIN sq}

(***************************************************************************)
(* Template discovery                                                      *)
(***************************************************************************)
\* ~/.config/bake/templates, ~/.bake/templates, <package>/templates
NumRoots == 3

\* get directories(): the search roots, by index
directories == [i \in 1..NumRoots |-> i]

\* A template directory is named by its root and its basename
DirNode(fs, dir) == fs[dir[1]].o[dir[2]]

\* loadTemplatesFrom(dir): the subdirectories of a root
loadTemplatesFrom(fs, root) ==
  LET names == readdirSync(fs[root])
      dirs  == SelectNames(names, {n \in Range(names) : directory(fs[root].o[n])})
  IN  [i \in 1..Len(dirs) |-> <<root, dirs[i]>>]

\* Mutant of ExistingRoots: the roots are searched in reverse order.
ExistingRootsReversed(fs) ==
  LET Rev(i) == NumRoots + 1 - i
  IN  SelectSeq([i \in 1..NumRoots |-> directories[Rev(i)]], LAMBDA r : exists(fs[r]))

\* dirs.filter(this.exists)
ExistingRoots(fs) == SelectSeq(directories, LAMBDA r : exists(fs[r]))

\* loadTemplates(): { dir, name, json } of every template, in root order
loadTemplates(fs) ==
  LET roots == ExistingRoots(fs)
      dirs == Flatten([i \in 1..Len(roots) |-> loadTemplatesFrom(fs, roots[i])])
      Load(dir) ==
        LET pkg == Entry(DirNode(fs, dir), "package.json")
        IN  [dir  |-> dir,
             name |-> dir[2],
             json |-> IF exists(pkg) THEN pkg ELSE Obj(NoProps)]
  IN  [i \in 1..Len(dirs) |-> Load(dirs[i])]

NoTemplate == [dir |-> <<0, "">>, name |-> "", json |-> Undefined]

\* Mutant of find: an unknown name falls back to the first template.
findOrFirst(tpls, name) ==
  LET hits == {i \in DOMAIN tpls : tpls[i].name = name}
  IN  IF hits = {} THEN (IF tpls = <<>> THEN NoTemplate ELSE tpls[1])
      ELSE tpls[CHOOSE i \in hits : \A j \in hits : i <= j]

\* this.templates.find(template => template.name === name)
find(tpls, name) ==
  LET hits == {i \in DOMAIN tpls : tpls[i].name = name}
  IN  IF hits = {} THEN NoTemplate
      ELSE tpls[CHOOSE i \in hits : \A j \in hits : i <= j]

(***************************************************************************)
(* Hooks                                                                   *)
(***************************************************************************)
Runs == {1, 2}

HookNames == {"prestart", "start", "poststart", "preinstall", "install", "postinstall"}

\* 'pre' + name, 'post' + name
Pre(name)  == IF name = "start" THEN "prestart" ELSE "preinstall"
Post(name) == IF name = "start" THEN "poststart" ELSE "postinstall"

\* Mutant of invokeOrder: the main hook runs before its pre-hook.
invokeOrderMainFirst(name) == <<name, Pre(name), Post(name)>>

\* invoke(name): script('pre' + name), then script(name), then script('post' + name)
invokeOrder(name) == <<Pre(name), name, Post(name)>>

PhaseOf(h) == IF h \in {"prestart", "start", "poststart"} THEN "start" ELSE "install"

\* Position of hook h in the chain of its phase
IndexIn(h) == CHOOSE i \in 1..3 : invokeOrder(PhaseOf(h))[i] = h

Idle         == [at |-> "idle", st |-> "-"]
Terminal     == {"idle", "done", "failed", "rejected", "notfound"}
NoHooks      == [h \in HookNames |-> "none"]

\* this.config = template.json ? template.json.bake || {} : {};
\* this.scripts = this.config.scripts || {};
scriptsOf(template) ==
  LET config == IF Truthy(template.json)
                  THEN Or(Get(template.json, "bake"), Obj(NoProps))
                  ELSE Obj(NoProps)
  IN  Or(Get(config, "scripts"), Obj(NoProps))

\* Mutant of scriptCommand: a missing or empty script falls back to the
\* name of the hook.
scriptCommandDefault(sc, name) == Or(Get(Or(sc, Obj(NoProps)), name), Str(name))

\* let scripts = this.scripts || {}; let script = scripts[name] || '';
scriptCommand(sc, name) == Or(Get(Or(sc, Obj(NoProps)), name), Str(""))

\* script(name) called by run r with this.scripts = sc: a resolved promise
\* when there is no script, the promise of this.exec(script) otherwise.
script(sc, name, hk, ex) ==
  LET s == scriptCommand(sc, name)
  IN  IF ~Truthy(s)
        THEN [stage |-> [at |-> name, st |-> "resolved"],
              hooks |-> [hk EXCEPT ![name] = "skipped"],
              execs |-> ex]
        ELSE [stage |-> [at |-> name, st |-> "exec"],
              hooks |-> [hk EXCEPT ![name] = "running"],
              execs |-> Append(ex, [hook |-> name, cmd |-> s.s])]

(***************************************************************************)
(* Per-file operations of the expansion                                    *)
(***************************************************************************)
\* The files a template can put into the working directory
DestNames == {"Makefile", "lib", "package.json"}

NoOp  == [kind |-> "none", st |-> "-", out |-> NoFile]
NoOps == [f \in DestNames |-> NoOp]

\* No run, or no successful run of the same template, came before
NoPrior == [set |-> FALSE, disk |-> [f \in DestNames |-> NoFile]]

\* Mutant of streamKind: the destination is opened for writing even if it exists.
streamKindForce(dest) == "copy"

\* let output = existing ? this.noopStream() : fs.createWriteStream(dest);
\* "skip" pipes the source into noopStream and logs the warning,
\* "copy" pipes it into the destination and logs the success on close.
streamKind(dest) == IF exists(dest) THEN "skip" ELSE "copy"

\* stream(file, dest): the bytes of the source are piped to the output
stream(src, dest) == [kind |-> streamKind(dest), st |-> "inflight", out |-> src]

\* require(dest): the cached module if there is one, the parsed file otherwise
require(dest, cch) == IF exists(cch) THEN cch ELSE dest

\* mergeJSON(file, dest): the executor throws when the destination does not
\* parse, and hands the merged text to fs.writeFile otherwise.
mergeJSON(src, dest, cch) ==
  LET data == require(dest, cch)
  IN  IF data.t # "object"
        THEN [kind |-> "merge", st |-> "failed", out |-> NoFile]
        ELSE [kind |-> "merge", st |-> "inflight", out |-> mergeJSONText(data, src)]

\* Mutant of jsonAfterMerge: the merge is assigned into the template manifest.
jsonAfterMergeInPlace(json, data) == mergeResult(data, json)

\* The object `json` (the require()d template manifest, which is the object
\* the template list holds) after mergeJSON has run: every Object.assign of
\* mergeJSON has a new {} as its target, so it is left as it was.
jsonAfterMerge(json, data) == json

\* Mutant of json: an existing package.json is handled like any other file.
jsonNoMerge(src, dest, cch) == stream(src, dest)

\* json(file, dest)
json(src, dest, cch) ==
  IF exists(dest) THEN mergeJSON(src, dest, cch) ELSE stream(src, dest)

\* template(file, dest)
template(name, src, dest, cch) ==
  IF name = "package.json" THEN json(src, dest, cch) ELSE stream(src, dest)

\* Mutant of templateFiles: every entry of the directory is taken.
templateFilesAll(dirnode) == DOMAIN dirnode.o

\* The top-level files of a template directory:
\* fs.readdirSync(dir).map(this.resolve(dir)).filter(this.file)
templateFiles(dirnode) == {n \in DOMAIN dirnode.o : file(dirnode.o[n])}

\* expandTemplateDirectory(template): one operation per top-level file
expandTemplateDirectory(fs, tp, dsk, cch) ==
  LET dirnode == DirNode(fs, tp.dir)
      files   == templateFiles(dirnode)
  IN  [f \in DestNames |->
         IF f \in files THEN template(f, dirnode.o[f], dsk[f], cch) ELSE NoOp]

\* Mutant of PromiseAll: fulfilled by the first operation that succeeds.
PromiseAny(after) ==
  IF \E g \in DestNames : after[g].st = "failed" THEN "rejected"
  ELSE IF \E g \in DestNames : after[g].st = "ok" THEN "resolved"
  ELSE "pending"

\* Promise.all(promises): rejected as soon as one operation has failed,
\* fulfilled once every operation has succeeded (at once for no operation).
PromiseAll(after) ==
  IF \E g \in DestNames : after[g].st = "failed" THEN "rejected"
  ELSE IF \A g \in DestNames : after[g].st \in {"-", "ok"} THEN "resolved"
  ELSE "pending"

InFlight(r) == {f \in DestNames : ops[r][f].st = "inflight"}

Quiescent(r) == stage[r].at \in Terminal /\ InFlight(r) = {}

(***************************************************************************)
(* The run pipeline                                                        *)
(***************************************************************************)
\* CLI.fail(...): the failure reporter of the surrounding CLI; it reports
\* the failure and the run is over.
CLIfail(r) ==
  /\ failReports' = [failReports EXCEPT ![r] = @ + 1]

\* The .catch(CLI.fail) of run() hangs on the chain built inside the callback
\* of invoke('start').then(...): it sees the rejections of the expansion and
\* of invoke('install'), not those of invoke('start').
caught(phase) == phase \in {"expand", "install"}

\* Mutant of thenRuns: the next callback runs after a rejection as well.
thenRunsAlways(outcome) == TRUE

\* promise.then(callback): the callback runs when the promise is fulfilled; a
\* rejection skips it and travels down the chain.
thenRuns(outcome) == outcome = "fulfilled"

\* A rejection raised in `phase` travels down the chain of run()
Reject(r, phase) ==
  IF caught(phase)
    THEN /\ CLIfail(r)
         /\ stage' = [stage EXCEPT ![r] = [at |-> "failed", st |-> phase]]
    ELSE /\ UNCHANGED failReports
         /\ stage' = [stage EXCEPT ![r] = [at |-> "rejected", st |-> phase]]

\* run(name = 'default', args), up to its first suspension
RunCall(r, arg) ==
  LET name == IF arg.t = "undefined" THEN "default" ELSE arg.s
      tp   == find(templates, name)
  IN  /\ alive
      /\ Quiescent(r)
      /\ asked' = [asked EXCEPT ![r] = name]
      /\ tpl' = [tpl EXCEPT ![r] = tp]
      /\ ops' = [ops EXCEPT ![r] = NoOps]
      /\ prior' = [prior EXCEPT ![r] =
                     IF stage[r].at = "done" /\ asked[r] = name
                       THEN [set |-> TRUE, disk |-> disk] ELSE NoPrior]
      /\ IF tp = NoTemplate
           THEN /\ failReports' = [failReports EXCEPT ![r] = 1]
                /\ stage' = [stage EXCEPT ![r] = [at |-> "notfound", st |-> "-"]]
                /\ hooks' = [hooks EXCEPT ![r] = NoHooks]
                /\ execs' = [execs EXCEPT ![r] = <<>>]
                /\ UNCHANGED scripts
           ELSE LET sc  == scriptsOf(tp)
                    res == script(sc, invokeOrder("start")[1], NoHooks, <<>>)
                IN  /\ scripts' = sc
                    /\ failReports' = [failReports EXCEPT ![r] = 0]
                    /\ stage' = [stage EXCEPT ![r] = res.stage]
                    /\ hooks' = [hooks EXCEPT ![r] = res.hooks]
                    /\ execs' = [execs EXCEPT ![r] = res.execs]
      /\ UNCHANGED <<rootfs, templates, disk, cache, alive>>
      /\ UNCHANGED mergeVars

\* The command of the running sub-hook exits: with status 0, or with a
\* nonzero status / a spawn failure.
ExecExit(r, ok) ==
  LET h == stage[r].at
  IN  /\ alive
      /\ stage[r].st = "exec"
      /\ hooks' = [hooks EXCEPT ![r][h] = IF ok THEN "ok" ELSE "failed"]
      /\ IF thenRuns(IF ok THEN "fulfilled" ELSE "rejected")
           THEN /\ stage' = [stage EXCEPT ![r].st = "resolved"]
                /\ UNCHANGED failReports
           ELSE Reject(r, PhaseOf(h))
      /\ UNCHANGED <<rootfs, templates, scripts, disk, cache, asked, tpl, execs, ops, alive, prior>>
      /\ UNCHANGED mergeVars

\* .then(this.script.bind(this, ...)): the next sub-hook of the phase
ThenScript(r) ==
  LET h == stage[r].at
  IN  /\ alive
      /\ stage[r].st = "resolved"
      /\ h \in HookNames
      /\ IndexIn(h) < 3
      /\ LET res == script(scripts, invokeOrder(PhaseOf(h))[IndexIn(h) + 1],
                           hooks[r], execs[r])
         IN  /\ stage' = [stage EXCEPT ![r] = res.stage]
             /\ hooks' = [hooks EXCEPT ![r] = res.hooks]
             /\ execs' = [execs EXCEPT ![r] = res.execs]
      /\ UNCHANGED <<rootfs, templates, scripts, disk, cache, asked, tpl, ops, failReports, alive, prior>>
      /\ UNCHANGED mergeVars

\* The callback of invoke('start').then(...): the expansion is launched and
\* Promise.all waits for its operations.
ThenExpand(r) ==
  LET launched == expandTemplateDirectory(rootfs, tpl[r], disk, cache)
      merged   == launched["package.json"].kind = "merge"
  IN  /\ alive
      /\ stage[r] = [at |-> invokeOrder("start")[3], st |-> "resolved"]
      /\ ops' = [ops EXCEPT ![r] = launched]
      /\ cache' = IF merged /\ launched["package.json"].st = "inflight"
                    THEN require(disk["package.json"], cache)
                    ELSE cache
      /\ IF PromiseAll(launched) = "rejected"
           THEN Reject(r, "expand")
           ELSE /\ UNCHANGED failReports
                /\ stage' = [stage EXCEPT ![r] =
                     [at |-> "expand", st |-> PromiseAll(launched)]]
      /\ templates' =
           IF merged /\ launched["package.json"].st = "inflight"
             THEN [i \in DOMAIN templates |->
                     IF templates[i].dir = tpl[r].dir
                       THEN [templates[i] EXCEPT !.json =
                               jsonAfterMerge(@, require(disk["package.json"], cache))]
                       ELSE templates[i]]
             ELSE templates
      /\ UNCHANGED <<rootfs, scripts, disk, asked, tpl, hooks, execs, alive, prior>>
      /\ UNCHANGED mergeVars

\* .then(this.invoke.bind(this, 'install'))
ThenInstall(r) ==
  /\ alive
  /\ stage[r] = [at |-> "expand", st |-> "resolved"]
  /\ LET res == script(scripts, invokeOrder("install")[1], hooks[r], execs[r])
     IN  /\ stage' = [stage EXCEPT ![r] = res.stage]
         /\ hooks' = [hooks EXCEPT ![r] = res.hooks]
         /\ execs' = [execs EXCEPT ![r] = res.execs]
  /\ UNCHANGED <<rootfs, templates, scripts, disk, cache, asked, tpl, ops, failReports, alive, prior>>
  /\ UNCHANGED mergeVars

\* The promise of run() is fulfilled: init() calls this.end()
ThenEnd(r) ==
  /\ alive
  /\ stage[r] = [at |-> invokeOrder("install")[3], st |-> "resolved"]
  /\ stage' = [stage EXCEPT ![r] = [at |-> "done", st |-> "-"]]
  /\ UNCHANGED <<rootfs, templates, scripts, disk, cache, asked, tpl, hooks, execs,
                 ops, failReports, alive, prior>>
  /\ UNCHANGED mergeVars

\* Mutant of Settle: a failure cancels the operations still in flight.
SettleCancel(r, f, result) ==
  LET after == [g \in DestNames |->
                  IF g = f THEN [ops[r][g] EXCEPT !.st = result]
                  ELSE IF result = "failed" /\ ops[r][g].st = "inflight"
                         THEN [ops[r][g] EXCEPT !.st = "cancelled"]
                         ELSE ops[r][g]]
  IN  /\ ops' = [ops EXCEPT ![r] = after]
      /\ IF stage[r] = [at |-> "expand", st |-> "pending"]
           THEN IF PromiseAll(after) = "rejected"
                  THEN Reject(r, "expand")
                  ELSE /\ UNCHANGED failReports
                       /\ stage' = [stage EXCEPT ![r].st = PromiseAll(after)]
           ELSE UNCHANGED <<stage, failReports>>

\* Promise.all(dir.promises) after operation f of run r has settled with
\* `result`: rejected by the first failure, fulfilled by the last success.
Settle(r, f, result) ==
  LET after == [ops[r] EXCEPT ![f].st = result]
  IN  /\ ops' = [ops EXCEPT ![r] = after]
      /\ IF stage[r] = [at |-> "expand", st |-> "pending"]
           THEN IF PromiseAll(after) = "rejected"
                  THEN Reject(r, "expand")
                  ELSE /\ UNCHANGED failReports
                       /\ stage' = [stage EXCEPT ![r].st = PromiseAll(after)]
           ELSE UNCHANGED <<stage, failReports>>

\* 'close' of the output stream: the copy is on disk (nothing is, for noopStream)
StreamClose(r, f) ==
  /\ alive
  /\ ops[r][f].st = "inflight"
  /\ ops[r][f].kind \in {"copy", "skip"}
  /\ disk' = IF ops[r][f].kind = "copy" THEN [disk EXCEPT ![f] = ops[r][f].out] ELSE disk
  /\ Settle(r, f, "ok")
  /\ UNCHANGED <<rootfs, templates, scripts, cache, asked, tpl, hooks, execs, alive, prior>>
  /\ UNCHANGED mergeVars

\* 'error' of the write stream: the destination is left as it was or half written
StreamError(r, f, written) ==
  /\ alive
  /\ ops[r][f].st = "inflight"
  /\ ops[r][f].kind = "copy"
  /\ disk' = IF written THEN [disk EXCEPT ![f] = Partial] ELSE disk
  /\ Settle(r, f, "failed")
  /\ UNCHANGED <<rootfs, templates, scripts, cache, asked, tpl, hooks, execs, alive, prior>>
  /\ UNCHANGED mergeVars

\* 'error' of the read stream: input.pipe(output) returns the output, so the
\* input has no 'error' listener and the event is thrown as an uncaught
\* exception, which ends the process.
ReadError(r, f, written) ==
  /\ alive
  /\ ops[r][f].st = "inflight"
  /\ ops[r][f].kind \in {"copy", "skip"}
  /\ disk' = IF written /\ ops[r][f].kind = "copy"
               THEN [disk EXCEPT ![f] = Partial] ELSE disk
  /\ alive' = FALSE
  /\ UNCHANGED <<rootfs, templates, scripts, cache, stage, asked, tpl, hooks, execs,
                 ops, failReports, prior>>
  /\ UNCHANGED mergeVars

\* The callback of fs.writeFile without an error
WriteFileDone(r, f) ==
  /\ alive
  /\ ops[r][f].st = "inflight"
  /\ ops[r][f].kind = "merge"
  /\ disk' = [disk EXCEPT ![f] = ops[r][f].out]
  /\ Settle(r, f, "ok")
  /\ UNCHANGED <<rootfs, templates, scripts, cache, asked, tpl, hooks, execs, alive, prior>>
  /\ UNCHANGED mergeVars

\* The callback of fs.writeFile with an error
WriteFileError(r, f, written) ==
  /\ alive
  /\ ops[r][f].st = "inflight"
  /\ ops[r][f].kind = "merge"
  /\ disk' = IF written THEN [disk EXCEPT ![f] = Partial] ELSE disk
  /\ Settle(r, f, "failed")
  /\ UNCHANGED <<rootfs, templates, scripts, cache, asked, tpl, hooks, execs, alive, prior>>
  /\ UNCHANGED mergeVars

\* constructor(options): a new process builds a new Template
NewProcess ==
  /\ ~alive \/ \A r \in Runs : Quiescent(r)
  /\ ~alive \/ \E r \in Runs : stage[r] # Idle
  /\ templates' = loadTemplates(rootfs)
  /\ scripts' = Undefined
  /\ cache' = NoFile
  /\ stage' = [r \in Runs |-> Idle]
  /\ asked' = [r \in Runs |-> ""]
  /\ tpl' = [r \in Runs |-> NoTemplate]
  /\ hooks' = [r \in Runs |-> NoHooks]
  /\ execs' = [r \in Runs |-> <<>>]
  /\ ops' = [r \in Runs |-> NoOps]
  /\ failReports' = [r \in Runs |-> 0]
  /\ alive' = TRUE
  /\ prior' = [r \in Runs |-> NoPrior]
  /\ UNCHANGED <<rootfs, disk>>
  /\ UNCHANGED mergeVars

(***************************************************************************)
(* Template directories, search roots and working directories the runs     *)
(* start from.                                                             *)
(***************************************************************************)
TemplateNames == {"default", "node"}
RunArgs == {Undefined, Str("default"), Str("node"), Str("nope")}

\* bake.scripts of the template under study: any set of configured
\* sub-hooks, and one map with empty scripts
ScriptMaps(tag) ==
  {[h \in S |-> Str(tag)] : S \in SUBSET HookNames} \cup
  {[h \in HookNames |-> IF h \in {"start", "preinstall"} THEN Str("") ELSE Str(tag)]}

BakeOpts(tag) ==
  {NoProps, "bake" :> Obj(NoProps)} \cup
  {"bake" :> Obj("scripts" :> Obj(m)) : m \in ScriptMaps(tag)}

TplPkg(bake) ==
  Obj(("name" :> Str("tpl")) @@
      ("dependencies" :> Obj(("a" :> Str("2")) @@ ("b" :> Str("1")))) @@ bake)

WideDirs ==
  {Dir(NoProps), Dir(("Makefile" :> Str("tpl")) @@ ("lib" :> Dir(NoProps)))} \cup
  {Dir(("Makefile" :> Str("tpl")) @@ ("lib" :> Dir(NoProps)) @@
       ("package.json" :> TplPkg(b))) : b \in BakeOpts("A")}

\* A template with a start and an install hook that carry its tag
FixedDir(tag) ==
  Dir(("Makefile" :> Str(tag)) @@
      ("package.json" :>
         Obj(("name" :> Str(tag)) @@
             ("devDependencies" :> Obj("b" :> Str("1"))) @@
             ("bake" :> Obj("scripts" :>
                Obj(("start" :> Str(tag)) @@ ("install" :> Str(tag))))))))

\* package.json of a project, without and with a "bake" field of its own
E1 == Obj(("name" :> Str("mine")) @@ ("dependencies" :> Obj("a" :> Str("1"))))
E2 == Obj(("name" :> Str("mine")) @@ ("dependencies" :> Obj("a" :> Str("1"))) @@
          ("bake" :> Obj("scripts" :> Obj("install" :> Str("E")))))

WideDisks ==
  {[f \in DestNames |->
      IF f = "Makefile" THEN m ELSE IF f = "package.json" THEN p ELSE NoFile] :
     m \in {NoFile, Str("old")}, p \in {NoFile, E1, E2}}

EmptyDisk == [f \in DestNames |-> NoFile]

\* One search root is missing, one holds no template, the last one holds
\* the template under study as "default"
InitWide ==
  /\ \E d \in WideDirs :
       rootfs = [i \in 1..NumRoots |->
                   IF i = 1 THEN NoFile
                   ELSE IF i = 2 THEN Dir("README" :> Str("readme"))
                   ELSE Dir("default" :> d)]
  /\ disk \in WideDisks

\* Every layout of the search roots: a root is missing or holds any set of
\* the template names
InitLayouts ==
  /\ rootfs \in [1..NumRoots ->
                   {NoFile} \cup {Dir([n \in S |-> FixedDir("R")]) : S \in SUBSET TemplateNames}]
  /\ disk = EmptyDisk

MergeIdle ==
  /\ mE = NoFile
  /\ mT = NoFile
  /\ mPrev = NoFile
  /\ mFirst = NoFile
  /\ mCount = 0

\* The state a constructed Template starts from
Constructed ==
  /\ templates = loadTemplates(rootfs)
  /\ scripts = Undefined
  /\ cache = NoFile
  /\ stage = [r \in Runs |-> Idle]
  /\ asked = [r \in Runs |-> ""]
  /\ tpl = [r \in Runs |-> NoTemplate]
  /\ hooks = [r \in Runs |-> NoHooks]
  /\ execs = [r \in Runs |-> <<>>]
  /\ ops = [r \in Runs |-> NoOps]
  /\ failReports = [r \in Runs |-> 0]
  /\ alive = TRUE
  /\ prior = [r \in Runs |-> NoPrior]

Init ==
  /\ InitWide \/ InitLayouts
  /\ Constructed
  /\ MergeIdle

\* `bake init` makes one run() per instance at a time
SeqRuns == {1}

Next ==
  \E r \in SeqRuns :
    \/ \E arg \in RunArgs : RunCall(r, arg)
    \/ \E ok \in BOOLEAN : ExecExit(r, ok)
    \/ ThenScript(r)
    \/ ThenExpand(r)
    \/ ThenInstall(r)
    \/ ThenEnd(r)
    \/ \E f \in DestNames : StreamClose(r, f)
    \/ \E f \in DestNames, w \in BOOLEAN : StreamError(r, f, w)
    \/ \E f \in DestNames, w \in BOOLEAN : ReadError(r, f, w)
    \/ \E f \in DestNames : WriteFileDone(r, f)
    \/ \E f \in DestNames, w \in BOOLEAN : WriteFileError(r, f, w)
    \/ NewProcess

Spec == Init /\ [][Next]_vars

(***************************************************************************)
(* Two run() calls on one Template instance, interleaved at their          *)
(* suspension points                                                       *)
(***************************************************************************)
InitConcurrent ==
  /\ rootfs = [i \in 1..NumRoots |->
                 IF i = 1 THEN NoFile
                 ELSE IF i = 2 THEN Dir("node" :> FixedDir("N"))
                 ELSE Dir(("default" :> FixedDir("D")) @@ ("node" :> FixedDir("X")))]
  /\ disk = EmptyDisk
  /\ Constructed
  /\ MergeIdle

\* run(name, args) called once by each of the two callers
RunOnce(r, arg) ==
  /\ stage[r] = Idle
  /\ RunCall(r, arg)

NextConcurrent ==
  \E r \in Runs :
    \/ \E arg \in RunArgs : RunOnce(r, arg)
    \/ \E ok \in BOOLEAN : ExecExit(r, ok)
    \/ ThenScript(r)
    \/ ThenExpand(r)
    \/ ThenInstall(r)
    \/ ThenEnd(r)
    \/ \E f \in DestNames : StreamClose(r, f)
    \/ \E f \in DestNames, w \in BOOLEAN : StreamError(r, f, w)
    \/ \E f \in DestNames, w \in BOOLEAN : ReadError(r, f, w)
    \/ \E f \in DestNames : WriteFileDone(r, f)
    \/ \E f \in DestNames, w \in BOOLEAN : WriteFileError(r, f, w)

SpecConcurrent == InitConcurrent /\ [][NextConcurrent]_vars

(***************************************************************************)
(* The merge on its own: every pair of manifests, merged repeatedly        *)
(***************************************************************************)
Versions == {Str(ToString(n)) : n \in 1..MaxVersion}
DepMaps(names) == {Obj(m) : m \in UNION {[S -> Versions] : S \in SUBSET names}}
Opt(key, vals) == {NoProps} \cup {key :> v : v \in vals}

Manifests ==
  {Obj(n @@ d @@ v @@ b) :
     n \in Opt("name", {Str("x"), Str("y")}),
     d \in Opt("dependencies", DepMaps({"a", "b"})),
     v \in Opt("devDependencies", DepMaps({"a"})),
     b \in Opt("bake", {Obj("scripts" :> Obj("install" :> Str("A")))})}

InitMerge ==
  /\ mE \in Manifests
  /\ mT \in Manifests
  /\ mPrev = NoFile
  /\ mFirst = NoFile
  /\ mCount = 0
  /\ rootfs = [i \in 1..NumRoots |-> NoFile]
  /\ disk = EmptyDisk
  /\ Constructed

\* mergeJSON applied to the destination manifest mE and the template's mT;
\* the text written is what the next merge reads
MergeStep ==
  /\ mCount < MaxMerges
  /\ mPrev' = mE
  /\ mE' = mergeJSONText(mE, mT)
  /\ mFirst' = IF mCount = 0 THEN mE' ELSE mFirst
  /\ mCount' = mCount + 1
  /\ UNCHANGED mT
  /\ UNCHANGED runVars

NextMerge == MergeStep

SpecMerge == InitMerge /\ [][NextMerge]_vars

(***************************************************************************)
(* Properties                                                              *)
(***************************************************************************)
StartHooks   == {"prestart", "start", "poststart"}
InstallHooks == {"preinstall", "install", "postinstall"}
RegularNames == DestNames \ {"package.json"}

\* The place of a sub-hook in a run
HookPos(h) ==
  CHOOSE i \in 1..6 :
    <<"prestart", "start", "poststart", "preinstall", "install", "postinstall">>[i] = h

Completed(r, h) == hooks[r][h] \in {"ok", "skipped"}

\* The script the selected template configures for sub-hook h
Configured(r, h) == Truthy(Get(Get(Get(tpl[r].json, "bake"), "scripts"), h))

ExecsOf(r, h) == {i \in DOMAIN execs[r] : execs[r][i].hook = h}

\* C1: in every run the three sub-hooks of the start phase have completed
\* before any per-file operation of the expansion is started, and every
\* per-file operation has settled before any sub-hook of the install phase
\* is started.
C1_PhasesAreBarriers ==
  \A r \in Runs :
    /\ (\E f \in DestNames : ops[r][f].kind # "none")
         => \A h \in StartHooks : Completed(r, h)
    /\ (\E h \in InstallHooks : hooks[r][h] # "none")
         => /\ \A f \in DestNames : ops[r][f].st \in {"-", "ok"}
            /\ \A h \in StartHooks : Completed(r, h)

C1_Witness ==
  \E r \in Runs :
    /\ hooks[r]["start"] = "ok"
    /\ hooks[r]["install"] = "running"
    /\ ops[r]["Makefile"].kind = "copy" /\ ops[r]["Makefile"].st = "ok"
    /\ ops[r]["package.json"].kind = "merge" /\ ops[r]["package.json"].st = "ok"

\* C2: invoke(P) runs pre<P>, P, post<P> in this order: a sub-hook is not
\* started before the previous one has completed, a command is executed at
\* most once, and once the phase is through every configured sub-hook has
\* been executed exactly once and no other has been executed.
C2_HookOrder ==
  \A r \in Runs :
    /\ \A i, j \in DOMAIN execs[r] :
         i < j => HookPos(execs[r][i].hook) < HookPos(execs[r][j].hook)
    /\ \A h, g \in HookNames :
         (hooks[r][h] # "none" /\ PhaseOf(g) = PhaseOf(h) /\ HookPos(g) < HookPos(h))
           => Completed(r, g)
    /\ \A h \in HookNames :
         /\ hooks[r][h] \in {"running", "ok", "failed"} <=> Cardinality(ExecsOf(r, h)) = 1
         /\ hooks[r][h] \in {"none", "skipped"} <=> ExecsOf(r, h) = {}
    /\ \A h \in HookNames :
         Completed(r, Post(PhaseOf(h)))
           => IF Configured(r, h)
                THEN /\ hooks[r][h] = "ok"
                     /\ \A i \in ExecsOf(r, h) :
                          execs[r][i].cmd = Get(Get(Get(tpl[r].json, "bake"), "scripts"), h).s
                ELSE hooks[r][h] = "skipped"

C2_Witness ==
  \E r \in Runs :
    /\ stage[r].at = "done"
    /\ Len(execs[r]) = 6
    /\ \A h \in HookNames : hooks[r][h] = "ok"

C4_NoBakeWritten ==
  \A r \in Runs :
    (ops[r]["package.json"].kind \in {"copy", "merge"} /\ ops[r]["package.json"].st = "ok")
      => "bake" \notin DOMAIN disk["package.json"].o

\* The keys and values of a dependency map (none when the field is missing)
DepsOf(manifest, key) == Get(manifest, key).o

\* C5: the merged dependencies (and devDependencies) map has E's value for
\* every key of E, T's value for every key only T has, and no other key.
C5_MergedDeps ==
  mCount >= 1 =>
    \A key \in {"dependencies", "devDependencies"} :
      LET e == DepsOf(mPrev, key)
          t == DepsOf(mT, key)
          m == DepsOf(mE, key)
      IN  /\ DOMAIN m = DOMAIN e \cup DOMAIN t
          /\ \A k \in DOMAIN m : m[k] = IF k \in DOMAIN e THEN e[k] ELSE t[k]

\* lodash ^3.0.0 in the project; lodash ^4.0.0 and chalk in the template
C5_Witness ==
  /\ mCount = 1
  /\ DepsOf(mPrev, "dependencies") = ("a" :> Str("1"))
  /\ DepsOf(mT, "dependencies") = (("a" :> Str("2")) @@ ("b" :> Str("1")))
  /\ DepsOf(mE, "dependencies") = (("a" :> Str("1")) @@ ("b" :> Str("1")))

\* C6: merging the same template a second time leaves the manifest as the
\* first merge wrote it: merge(merge(E,T),T) = merge(E,T).
C6_MergeIdempotent == mCount >= 2 => mE = mFirst

C6_Witness ==
  /\ mCount = 2
  /\ mFirst # mT
  /\ DepsOf(mT, "dependencies") # NoProps
  /\ DepsOf(mFirst, "dependencies") # DepsOf(mT, "dependencies")
  /\ "bake" \in DOMAIN mT.o

\* The search roots that exist and hold a directory of that name
RootsWith(name) ==
  {i \in 1..NumRoots :
     exists(rootfs[i]) /\ name \in DOMAIN rootfs[i].o /\ directory(rootfs[i].o[name])}

\* C7: run(name) selects the template of the lowest-indexed existing root
\* that has a subdirectory called name.
C7_FirstRootWins ==
  \A r \in Runs :
    stage[r].at \notin {"idle", "notfound"}
      => /\ RootsWith(asked[r]) # {}
         /\ tpl[r].name = asked[r]
         /\ tpl[r].dir = <<CHOOSE i \in RootsWith(asked[r]) :
                             \A j \in RootsWith(asked[r]) : i <= j, asked[r]>>

C7_Witness ==
  \E r \in Runs :
    /\ stage[r].at = "done"
    /\ ~exists(rootfs[1])
    /\ RootsWith(asked[r]) = {2, 3}
    /\ tpl[r].dir[1] = 2

Carried(name) == \E i \in DOMAIN templates : templates[i].name = name

\* C8: a run for a name no discovered template carries fails as "not found",
\* reports that once, executes no hook, starts no per-file operation and
\* leaves the working directory as it is.
C8_UnknownTemplate ==
  [][\A r \in Runs :
       (stage'[r].at # "idle" /\ ~Carried(asked'[r]))
         => /\ stage'[r].at = "notfound"
            /\ failReports'[r] = 1
            /\ execs'[r] = <<>>
            /\ hooks'[r] = NoHooks
            /\ ops'[r] = NoOps
            /\ disk' = disk]_vars

C8_Witness ==
  \E r \in Runs :
    /\ stage[r].at = "notfound"
    /\ asked[r] = "nope"
    /\ templates # <<>>
    /\ exists(disk["Makefile"])

\* C9: when a stage of a run fails (a hook of either phase or a per-file
\* operation), the run is over and the failure has been passed to CLI.fail
\* exactly once.
C9_FailureReportedOnce ==
  \A r \in Runs :
    ((\E h \in HookNames : hooks[r][h] = "failed") \/
     (\E f \in DestNames : ops[r][f].st = "failed"))
      => failReports[r] = 1

\* C10: after a sub-hook has failed, no later sub-hook is executed and the
\* run goes no further: no per-file operation after a failing start-phase
\* hook, no later install-phase hook after a failing install-phase hook.
C10_FailedHookAborts ==
  \A r \in Runs : \A h \in HookNames :
    hooks[r][h] = "failed"
      => /\ stage[r].at \in {"failed", "rejected"}
         /\ \A g \in HookNames : HookPos(g) > HookPos(h) => hooks[r][g] = "none"
         /\ h \in StartHooks => ops[r] = NoOps
         /\ execs[r][Len(execs[r])].hook = h

C10_Witness ==
  \E r \in Runs :
    /\ hooks[r]["start"] = "failed"
    /\ Configured(r, "poststart")
    /\ Configured(r, "install")
    /\ templateFiles(DirNode(rootfs, tpl[r].dir)) # {}

\* The per-file operations run r has launched
Launched(r) == {f \in DestNames : ops[r][f].kind # "none"}

C12_NoScriptNoProcess ==
  \A r \in Runs :
    /\ \A h \in HookNames :
         (hooks[r][h] # "none" /\ ~Configured(r, h))
           => hooks[r][h] = "skipped" /\ ExecsOf(r, h) = {}
    /\ stage[r].st = "exec" => Configured(r, stage[r].at)
    /\ Len(execs[r]) <= Cardinality({h \in HookNames : Configured(r, h)})
    /\ (stage[r].at \in {"failed", "rejected"} /\ stage[r].st \in {"start", "install"})
         => \E h \in HookNames : hooks[r][h] = "failed"

C12_Witness ==
  \E r \in Runs :
    /\ stage[r].at = "done"
    /\ Get(Get(Get(tpl[r].json, "bake"), "scripts"), "start") = Str("")
    /\ hooks[r]["start"] = "skipped"
    /\ hooks[r]["poststart"] = "ok"
    /\ Len(execs[r]) = 4

\* C13: the expansion settles only after every operation it launched has
\* settled: whenever the expansion has settled (resolved, failed and
\* reported, or followed by a later stage) no operation of the run is still
\* in flight.
C13_SettlesAfterAll ==
  \A r \in Runs :
    (Launched(r) # {} /\ stage[r] # [at |-> "expand", st |-> "pending"])
      => InFlight(r) = {}

\* C14: an I/O failure of a per-file operation settles the operation as
\* failed and is reported: no operation is left in flight by a process
\* that has died, and a failed operation goes with a failed, reported run
\* whose install phase has not started.
C14_IOFailureSettles ==
  \A r \in Runs :
    /\ InFlight(r) # {} => alive
    /\ (\E f \in DestNames : ops[r][f].st = "failed")
         => /\ stage[r].at = "failed" /\ stage[r].st = "expand"
            /\ failReports[r] = 1
            /\ \A h \in InstallHooks : hooks[r][h] = "none"

C16_OwnScriptsOnly ==
  \A r \in Runs : \A i \in 1..Len(execs[r]) :
    /\ Configured(r, execs[r][i].hook)
    /\ Str(execs[r][i].cmd) =
         Get(Get(Get(tpl[r].json, "bake"), "scripts"), execs[r][i].hook)

\* C17: re-running is a no-op on disk.  When a successful run of a
\* template is followed by a second successful run of the same template, the
\* working directory after the second run is what the first run left.
C17_RerunChangesNothing ==
  \A r \in Runs :
    (stage[r].at = "done" /\ prior[r].set) => disk = prior[r].disk

\* Top-level keys the merge treats specially
SpecialKeys == {"dependencies", "devDependencies", "bake"}

\* C18: in the merged manifest every other top-level field is the
\* destination's when the destination has it and the template's otherwise,
\* and the merge adds no other field.
C18_OtherFieldsPrecedence ==
  mCount >= 1 =>
    /\ DOMAIN mE.o \ SpecialKeys = (DOMAIN mPrev.o \cup DOMAIN mT.o) \ SpecialKeys
    /\ \A k \in DOMAIN mE.o \ SpecialKeys :
         mE.o[k] = IF k \in DOMAIN mPrev.o THEN mPrev.o[k] ELSE mT.o[k]

C18_Witness ==
  /\ mCount = 1
  /\ Get(mPrev, "name") = Str("x")
  /\ Get(mT, "name") = Str("y")
  /\ Get(mE, "name") = Str("x")

\* C19: the discovered template list is a read-only snapshot.  In every
\* state, whatever runs and merges have happened, the list is the one
\* discovery builds from the search roots (names, directories and loaded
\* manifests), and the template a run works with is an entry of it.
C19_TemplatesReadOnly ==
  /\ templates = loadTemplates(rootfs)
  /\ \A r \in Runs :
       tpl[r] # NoTemplate => \E i \in 1..Len(templates) : templates[i] = tpl[r]

C19_Witness ==
  \E r \in Runs :
    /\ stage[r].at = "done"
    /\ prior[r].set
    /\ ops[r]["package.json"].kind = "merge"
    /\ ops[r]["package.json"].st = "ok"
    /\ Get(tpl[r].json, "bake") # Undefined
    /\ Get(disk["package.json"], "name") = Str("mine")
    /\ templates = loadTemplates(rootfs)

\* The entries of the selected template's directory that are not directories
TopLevelFiles(r) ==
  LET d == DirNode(rootfs, tpl[r].dir)
  IN  IF tpl[r] = NoTemplate \/ d.t # "dir" THEN {}
      ELSE {n \in DOMAIN d.o : d.o[n].t # "dir"}

\* The expansion of run r has been launched
Expanded(r) ==
  \/ stage[r].at \in {"expand", "done"} \cup InstallHooks
  \/ stage[r].at = "failed" /\ stage[r].st \in {"expand", "install"}

====
